---- MODULE Spec2Model ----
(***************************************************************************)
(* A model of plot_us_states_map.py: get_us_shapefile (the cache of the    *)
(* boundary archive under ~/.us_state_geo) and plot_us_map (read the       *)
(* table, validate, join to the boundaries, colour, label, save).          *)
(*                                                                         *)
(* Numbers of the metric column are integers (hundredths); a position on   *)
(* the colour scale is an exact fraction <<num, den>>.  A missing cell     *)
(* (NaN) is the empty tuple, a present cell v is <<v>>.                     *)
(***************************************************************************)
EXTENDS Integers, Sequences, FiniteSets, TLC

\* ------------------------------------------------------------ bounds
MaxRows == 2
MaxSaves == 2

\* ------------------------------------------------------------ data
Procs == {1, 2}
SeqProcs == {1}

value_column == "Property_Tax_Burden"
Missing == <<>>
NoPath == <<>>

notnull(x) == x # Missing

\* The polygons gpd.read_file yields: one per state, with NAME and STUSPS.
usa ==
  << [NAME |-> "California", STUSPS |-> "CA"],
     [NAME |-> "Texas", STUSPS |-> "TX"] >>

\* State names an input row may carry: the polygons' names and one more.
InputNames == {"California", "Texas", "Atlantis"}

\* Values of the metric column, in hundredths: 0.76, 1.00, 1.60
Values == {76, 100, 160}

Cells == {Missing} \cup {<<v>> : v \in Values}

RowsFor(cols) ==
  { [State |-> s, value |-> c] :
      s \in (IF "State" \in cols THEN InputNames ELSE {""}),
      c \in (IF value_column \in cols THEN Cells ELSE {Missing}) }

SeqsUpTo(S, n) == UNION { [1..k -> S] : k \in 0..n }

ColumnSets == { {"State", value_column}, {"State"}, {value_column} }

\* Three-row tables over all three values: an unmatched row holds the
\* column's minimum (maximum), the polygons' rows the other two values.
ExampleFiles ==
  { [readable |-> TRUE, columns |-> {"State", value_column},
     rows |-> << [State |-> "Atlantis", value |-> <<76>>],
                 [State |-> "California", value |-> <<100>>],
                 [State |-> "Texas", value |-> <<160>>] >>],
    [readable |-> TRUE, columns |-> {"State", value_column},
     rows |-> << [State |-> "California", value |-> <<76>>],
                 [State |-> "Texas", value |-> <<100>>],
                 [State |-> "Atlantis", value |-> <<160>>] >>] }

\* What pd.read_csv may find at data_path: an unreadable file, or a table
\* (every table of up to MaxRows rows, and the examples).
InputFiles ==
  { [readable |-> FALSE, columns |-> {}, rows |-> <<>>] } \cup
  UNION { { [readable |-> TRUE, columns |-> cols, rows |-> rs] :
              rs \in SeqsUpTo(RowsFor(cols), MaxRows) } : cols \in ColumnSets }
  \cup ExampleFiles

NoTable == [readable |-> FALSE, columns |-> {}, rows |-> <<>>]

\* The scenario of the documentation: California 0.76, Texas 1.6 (ordered).
ScenarioFiles ==
  { [readable |-> TRUE, columns |-> {"State", value_column},
     rows |-> << [State |-> "California", value |-> <<76>>],
                 [State |-> "Texas", value |-> <<160>>] >>] }

\* What the archive at repo_zip_url may hold: directories in the order
\* os.walk visits them, each with its files in listing order.
Archives ==
  { << [root |-> "geomap-main", files |-> << <<"README", ".md">> >>],
       [root |-> "geomap-main/state_geo_files",
        files |-> << <<"us_states", ".shx">>, <<"us_states", ".shp">> >>] >>,
    << [root |-> "geomap-main/state_geo_files",
        files |-> << <<"us_states", ".shp">>, <<"us_states", ".shx">> >>],
       [root |-> "geomap-main/state_geo_files/old",
        files |-> << <<"states_old", ".shx">>, <<"states_old", ".shp">> >>] >>,
    << [root |-> "geomap-main", files |-> << <<"README", ".md">> >>] >> }

VARIABLES
  archive,    \* what repo_zip_url serves
  local_dir,  \* ~/.us_state_geo: [exists, files (a set of paths)]
  outFile,    \* output_file: [exists, version (number of saves)]
  pc,         \* each invocation's position (source line)
  df,         \* the table read at line 56
  zi,         \* members extractall has written so far
  wi,         \* the directory os.walk yields next
  shp_path,   \* line 41/45
  merged,     \* line 65, with the color column of line 76
  norm,       \* line 72-73: [vmin, vmax]
  fig,        \* the drawn figure: regions, labels, legend
  err,        \* the exception that ended the invocation
  effects     \* what the invocation has done so far (ghost)

vars == <<archive, local_dir, outFile, pc, df, zi, wi, shp_path, merged, norm,
          fig, err, effects>>

locals == <<df, zi, wi, shp_path, merged, norm, fig>>

NoFig == [regions |-> <<>>, labels |-> <<>>, legend |-> <<>>]
NoNorm == [vmin |-> Missing, vmax |-> Missing]

Init ==
  /\ archive \in Archives
  /\ local_dir = [exists |-> FALSE, files |-> {}]
  /\ outFile = [exists |-> FALSE, version |-> 0]
  /\ pc = [p \in Procs |-> "idle"]
  /\ df = [p \in Procs |-> NoTable]
  /\ zi = [p \in Procs |-> 0]
  /\ wi = [p \in Procs |-> 1]
  /\ shp_path = [p \in Procs |-> NoPath]
  /\ merged = [p \in Procs |-> <<>>]
  /\ norm = [p \in Procs |-> NoNorm]
  /\ fig = [p \in Procs |-> NoFig]
  /\ err = [p \in Procs |-> "none"]
  /\ effects = [p \in Procs |-> {}]

\* ------------------------------------------------------------ pure parts

\* file.endswith(ext), a file name being <<stem, ext>>
EndsWith(file, ext) == file[2] = ext

\* os.path.join(root, file)
Join(root, file) == <<root, file[1], file[2]>>

\* The archive's members in the order extractall writes them.
RECURSIVE namelist(_)
namelist(dirs) ==
  IF dirs = <<>> THEN <<>>
  ELSE [i \in 1..Len(Head(dirs).files) |-> Join(Head(dirs).root, Head(dirs).files[i])]
       \o namelist(Tail(dirs))

\* The files os.walk lists in directory d of the cache.
ListDir(d, present) ==
  SelectSeq(d.files, LAMBDA f : Join(d.root, f) \in present)

\* ScanFiles with the extension test never matching (a misspelt ".shp")
ScanFilesNoMatch(root, files, shp) == shp

\* Lines 43-46: the inner loop over one directory's files; shp is shp_path
\* before the loop, the result shp_path after it (break at the first match).
RECURSIVE ScanFiles(_, _, _)
ScanFiles(root, files, shp) ==
  IF files = <<>> THEN shp
  ELSE IF EndsWith(Head(files), ".shp") THEN Join(root, Head(files))
  ELSE ScanFiles(root, Tail(files), shp)

\* gpd.read_file opens a .shp only with its .shx index beside it.
Openable(path, present) == <<path[1], path[2], ".shx">> \in present

\* LeftMerge as an inner join (how="inner"): unmatched polygons are dropped
RECURSIVE InnerMerge(_, _)
InnerMerge(left, rows) ==
  IF left = <<>> THEN <<>>
  ELSE LET u == Head(left)
           m == SelectSeq(rows, LAMBDA r : r.State = u.NAME)
       IN  [i \in 1..Len(m) |->
              [NAME |-> u.NAME, STUSPS |-> u.STUSPS,
               State |-> <<m[i].State>>, value |-> m[i].value]]
           \o InnerMerge(Tail(left), rows)

\* Line 65: usa.merge(df, left_on="NAME", right_on="State", how="left")
RECURSIVE LeftMerge(_, _)
LeftMerge(left, rows) ==
  IF left = <<>> THEN <<>>
  ELSE LET u == Head(left)
           m == SelectSeq(rows, LAMBDA r : r.State = u.NAME)
       IN  (IF m = <<>>
            THEN << [NAME |-> u.NAME, STUSPS |-> u.STUSPS,
                     State |-> Missing, value |-> Missing] >>
            ELSE [i \in 1..Len(m) |->
                     [NAME |-> u.NAME, STUSPS |-> u.STUSPS,
                      State |-> <<m[i].State>>, value |-> m[i].value]])
           \o LeftMerge(Tail(left), rows)

\* Line 72: the present values of df[value_column]
Present(rows) == { rows[i].value[1] : i \in { j \in 1..Len(rows) : notnull(rows[j].value) } }

SetMin(S) == CHOOSE x \in S : \A y \in S : x <= y
SetMax(S) == CHOOSE x \in S : \A y \in S : x >= y

\* ColMin with the scale anchored at zero instead of the column's minimum
ColMinZero(rows) == IF Present(rows) = {} THEN Missing ELSE <<0>>

\* Series.min() / Series.max(): NaN when no value is present
ColMin(rows) == IF Present(rows) = {} THEN Missing ELSE <<SetMin(Present(rows))>>
ColMax(rows) == IF Present(rows) = {} THEN Missing ELSE <<SetMax(Present(rows))>>

\* Size of the colormap's lookup table (LinearSegmentedColormap.from_list default).
N == 256

\* Normalize without the vmin == vmax case: 0/0, a NaN position
NormalizeNoGuard(vmin, vmax, x) == <<x - vmin, vmax - vmin>>

\* Line 73: Normalize(vmin, vmax)(x) as a fraction <<num, den>>; matplotlib
\* returns 0 for every x when vmin == vmax.
Normalize(vmin, vmax, x) ==
  IF vmin = vmax THEN <<0, 1>> ELSE <<x - vmin, vmax - vmin>>

\* Line 68-71: cmap(X) for a float X = num/den: the lookup-table index.
\* N is the under, N+1 the over, N+2 the bad (NaN) entry.
cmap(X) ==
  LET num == X[1]
      den == X[2]
      xa  == IF den = 0 THEN 0 ELSE (num * N) \div den
      idx == IF den = 0 THEN N + 2
             ELSE IF num * N = N * den THEN N - 1
             ELSE IF xa < 0 THEN N
             ELSE IF xa > N - 1 THEN N + 1
             ELSE xa
  IN  <<"custom_us_gradient", idx>>

Grey == <<"#DEDEDE">>

\* ColorOf with the test inverted: grey for present values
ColorOfInverted(x, nm) ==
  IF notnull(x) THEN Grey ELSE <<"custom_us_gradient", N + 2>>

\* Lines 76-78: the lambda applied to one value
ColorOf(x, nm) ==
  IF notnull(x) THEN cmap(Normalize(nm.vmin[1], nm.vmax[1], x[1])) ELSE Grey

\* f"{value:.2f}" of a value in hundredths: units, tenths, hundredths
Format2f(v) == <<v \div 100, (v % 100) \div 10, v % 10>>

\* LabelOf without the branch: the value line is always written ("nan")
LabelOfNoBranch(row) ==
  [NAME |-> row.NAME,
   text |-> <<row.STUSPS, IF notnull(row.value) THEN Format2f(row.value[1]) ELSE <<>> >>,
   color |-> "white", fontweight |-> "bold"]

\* Lines 98-117: one row's annotation
LabelOf(row) ==
  IF notnull(row.value)
  THEN [NAME |-> row.NAME, text |-> <<row.STUSPS, Format2f(row.value[1])>>,
        color |-> "white", fontweight |-> "bold"]
  ELSE [NAME |-> row.NAME, text |-> <<row.STUSPS>>,
        color |-> "black", fontweight |-> "medium"]

\* ------------------------------------------------------------ steps

Goto(p, l) == pc' = [pc EXCEPT ![p] = l]

Raise(p, e) ==
  /\ pc' = [pc EXCEPT ![p] = "failed"]
  /\ err' = [err EXCEPT ![p] = e]

Did(p, what) == effects' = [effects EXCEPT ![p] = @ \cup {what}]

\* Line 56 (and the call): pd.read_csv(data_path, sep="\t")
Start(p, files) ==
  /\ pc[p] = "idle"
  /\ outFile.version < MaxSaves
  /\ \E f \in files :
       IF f.readable
       THEN /\ df' = [df EXCEPT ![p] = f]
            /\ Goto(p, "L57")
            /\ err' = err
       ELSE /\ df' = df
            /\ Raise(p, "read_csv error")
  /\ UNCHANGED <<archive, local_dir, outFile, zi, wi, shp_path, merged, norm, fig, effects>>

\* Validate placed after the cache directory is ensured
ValidateAfterMakedirs(p) ==
  /\ pc[p] = "L57"
  /\ local_dir' = [local_dir EXCEPT !.exists = TRUE]
  /\ Did(p, "makedirs")
  /\ IF "State" \notin df[p].columns
     THEN Raise(p, "ValueError")
     ELSE Goto(p, "L32") /\ err' = err
  /\ UNCHANGED <<archive, outFile, locals>>

\* Lines 57-58
Validate(p) ==
  /\ pc[p] = "L57"
  /\ IF "State" \notin df[p].columns
     THEN Raise(p, "ValueError")
     ELSE Goto(p, "L32") /\ err' = err
  /\ UNCHANGED <<archive, local_dir, outFile, locals, effects>>

\* Exists testing for a cached .shp file instead of the directory
ExistsShapefile(p) ==
  /\ pc[p] = "L32"
  /\ IF \A f \in local_dir.files : f[3] # ".shp" THEN Goto(p, "L33") ELSE Goto(p, "L42")
  /\ UNCHANGED <<archive, local_dir, outFile, locals, err, effects>>

\* Line 32: if not os.path.exists(local_dir)
Exists(p) ==
  /\ pc[p] = "L32"
  /\ IF ~local_dir.exists THEN Goto(p, "L33") ELSE Goto(p, "L42")
  /\ UNCHANGED <<archive, local_dir, outFile, locals, err, effects>>

\* Line 33: os.makedirs(local_dir, exist_ok=True)
Makedirs(p) ==
  /\ pc[p] = "L33"
  /\ local_dir' = [local_dir EXCEPT !.exists = TRUE]
  /\ Goto(p, "L35")
  /\ Did(p, "makedirs")
  /\ UNCHANGED <<archive, outFile, locals, err>>

\* Lines 35-36: requests.get, then zipfile.ZipFile on the response
Get(p) ==
  /\ pc[p] = "L35"
  /\ Did(p, "get")
  /\ \E outcome \in {"ok", "ConnectionError", "BadZipFile"} :
       IF outcome = "ok"
       THEN Goto(p, "L37") /\ err' = err
       ELSE Raise(p, outcome)
  /\ zi' = [zi EXCEPT ![p] = 0]
  /\ UNCHANGED <<archive, local_dir, outFile, df, wi, shp_path, merged, norm, fig>>

\* Line 37: extractall writes the next member, or fails (the directory stays)
Extract(p) ==
  /\ pc[p] = "L37"
  /\ Did(p, "extractall")
  /\ \E ok \in BOOLEAN :
       IF ok
       THEN /\ local_dir' = [local_dir EXCEPT
                               !.files = @ \cup {namelist(archive)[zi[p] + 1]}]
            /\ zi' = [zi EXCEPT ![p] = @ + 1]
            /\ Goto(p, IF zi[p] + 1 = Len(namelist(archive)) THEN "L42" ELSE "L37")
            /\ err' = err
       ELSE /\ Raise(p, "OSError")
            /\ UNCHANGED <<local_dir, zi>>
  /\ UNCHANGED <<archive, outFile, df, wi, shp_path, merged, norm, fig>>

\* Lines 42-46: one directory of os.walk(local_dir)
Walk(p) ==
  /\ pc[p] = "L42"
  /\ Did(p, "walk")
  /\ shp_path' = [shp_path EXCEPT ![p] =
                    ScanFiles(archive[wi[p]].root,
                              ListDir(archive[wi[p]], local_dir.files), @)]
  /\ wi' = [wi EXCEPT ![p] = @ + 1]
  /\ Goto(p, IF wi[p] = Len(archive) THEN "L47" ELSE "L42")
  /\ UNCHANGED <<archive, local_dir, outFile, df, zi, merged, norm, fig, err>>

\* Lines 47-49
Locate(p) ==
  /\ pc[p] = "L47"
  /\ IF shp_path[p] = NoPath
     THEN Raise(p, "FileNotFoundError")
     ELSE Goto(p, "L62") /\ err' = err
  /\ UNCHANGED <<archive, local_dir, outFile, locals, effects>>

\* Line 62: gpd.read_file(shp_path)
ReadFile(p) ==
  /\ pc[p] = "L62"
  /\ Did(p, "read_file")
  /\ IF Openable(shp_path[p], local_dir.files)
     THEN Goto(p, "L65") /\ err' = err
     ELSE Raise(p, "DataSourceError")
  /\ UNCHANGED <<archive, local_dir, outFile, locals>>

\* Line 65
Merge(p) ==
  /\ pc[p] = "L65"
  /\ merged' = [merged EXCEPT ![p] = LeftMerge(usa, df[p].rows)]
  /\ Goto(p, "L72")
  /\ UNCHANGED <<archive, local_dir, outFile, df, zi, wi, shp_path, norm, fig, err, effects>>

\* MinMax with the figure saved before the column is looked up
MinMaxAfterSave(p) ==
  /\ pc[p] = "L72"
  /\ outFile' = [exists |-> TRUE, version |-> outFile.version + 1]
  /\ IF value_column \notin df[p].columns
     THEN Raise(p, "KeyError") /\ norm' = norm
     ELSE /\ norm' = [norm EXCEPT ![p] =
                        [vmin |-> ColMin(df[p].rows), vmax |-> ColMax(df[p].rows)]]
          /\ Goto(p, "L76")
          /\ err' = err
  /\ UNCHANGED <<archive, local_dir, df, zi, wi, shp_path, merged, fig, effects>>

\* Lines 72-73: df[value_column] raises KeyError for an absent column
MinMax(p) ==
  /\ pc[p] = "L72"
  /\ IF value_column \notin df[p].columns
     THEN Raise(p, "KeyError") /\ norm' = norm
     ELSE /\ norm' = [norm EXCEPT ![p] =
                        [vmin |-> ColMin(df[p].rows), vmax |-> ColMax(df[p].rows)]]
          /\ Goto(p, "L76")
          /\ err' = err
  /\ UNCHANGED <<archive, local_dir, outFile, df, zi, wi, shp_path, merged, fig, effects>>

\* Lines 76-78: merged["color"]
AssignColors(p) ==
  /\ pc[p] = "L76"
  /\ merged' = [merged EXCEPT ![p] =
                  [i \in 1..Len(@) |->
                     [NAME |-> @[i].NAME, STUSPS |-> @[i].STUSPS, State |-> @[i].State,
                      value |-> @[i].value, color |-> ColorOf(@[i].value, norm[p])]]]
  /\ Goto(p, "L81")
  /\ UNCHANGED <<archive, local_dir, outFile, df, zi, wi, shp_path, norm, fig, err, effects>>

\* Lines 81-122: the polygons, the colorbar, the labels, the title
Draw(p) ==
  /\ pc[p] = "L81"
  /\ fig' = [fig EXCEPT ![p] =
               [regions |-> [i \in 1..Len(merged[p]) |->
                               [NAME |-> merged[p][i].NAME, color |-> merged[p][i].color]],
                labels  |-> [i \in 1..Len(merged[p]) |-> LabelOf(merged[p][i])],
                legend  |-> <<[cmap |-> "custom_us_gradient",
                               vmin |-> norm[p].vmin, vmax |-> norm[p].vmax]>>]]
  /\ Goto(p, "L125")
  /\ UNCHANGED <<archive, local_dir, outFile, df, zi, wi, shp_path, merged, norm, err, effects>>

\* Lines 125-127: plt.savefig(output_file)
Savefig(p) ==
  /\ pc[p] = "L125"
  /\ outFile' = [exists |-> TRUE, version |-> outFile.version + 1]
  /\ Did(p, "savefig")
  /\ Goto(p, "done")
  /\ UNCHANGED <<archive, local_dir, locals, err>>

\* The process ends: its locals are gone
Exit(p) ==
  /\ pc[p] \in {"done", "failed"}
  /\ Goto(p, "idle")
  /\ df' = [df EXCEPT ![p] = NoTable]
  /\ zi' = [zi EXCEPT ![p] = 0]
  /\ wi' = [wi EXCEPT ![p] = 1]
  /\ shp_path' = [shp_path EXCEPT ![p] = NoPath]
  /\ merged' = [merged EXCEPT ![p] = <<>>]
  /\ norm' = [norm EXCEPT ![p] = NoNorm]
  /\ fig' = [fig EXCEPT ![p] = NoFig]
  /\ err' = [err EXCEPT ![p] = "none"]
  /\ effects' = [effects EXCEPT ![p] = {}]
  /\ UNCHANGED <<archive, local_dir, outFile>>

\* The body of an invocation after its start
Run(p) ==
  \/ Validate(p) \/ Exists(p) \/ Makedirs(p) \/ Get(p) \/ Extract(p)
  \/ Walk(p) \/ Locate(p) \/ ReadFile(p) \/ Merge(p) \/ MinMax(p)
  \/ AssignColors(p) \/ Draw(p) \/ Savefig(p) \/ Exit(p)

\* Sequential invocations (the command line used by one user), any input
Next == \E p \in SeqProcs : Start(p, InputFiles) \/ Run(p)

Spec == Init /\ [][Next]_vars

\* Two invocations running at once on the documented scenario
NextConc == \E p \in Procs : Start(p, ScenarioFiles) \/ Run(p)

SpecConc == Init /\ [][NextConc]_vars

\* ------------------------------------------------------------ properties

Names(s) == { s[i].NAME : i \in 1..Len(s) }

\* The invocation has drawn its figure (it is about to save, or has saved)
Rendered(p) == pc[p] \in {"L125", "done"}

\* Some input row's State equals the polygon's NAME
HasRow(rows, name) == \E i \in 1..Len(rows) : rows[i].State = name

CodeOf(name) == (CHOOSE i \in 1..Len(usa) : usa[i].NAME = name)

\* The .shp files of the cache in the order the walk meets them
ShpInWalkOrder(present) ==
  SelectSeq(namelist([i \in 1..Len(archive) |->
                        [root |-> archive[i].root,
                         files |-> ListDir(archive[i], present)]]),
            LAMBDA f : f[3] = ".shp")

HasShp(a) == \E i \in 1..Len(namelist(a)) : namelist(a)[i][3] = ".shp"

DownloadLines == {"L33", "L35", "L37"}

\* C1: an invocation that ended with the ValueError of the missing 'State'
\* column has made no geometry or network access: no makedirs, no download,
\* no extraction, no walk of the cache, no read of a shapefile, no save.
C1_ValidationBeforeAccess ==
  \A p \in Procs : err[p] = "ValueError" => effects[p] = {}

C1_Witness ==
  \E p \in Procs :
    /\ pc[p] = "failed" /\ err[p] = "ValueError"
    /\ "State" \notin df[p].columns /\ Len(df[p].rows) > 0

\* C2: once the join is made the joined records, and once the figure is drawn
\* the regions, carry exactly the names of the geometry source, whatever the
\* input rows are; and after the shapefile was read the only failure left is
\* the KeyError of an absent metric column (an unmatched row causes none).
C2_DrawnStatesAreGeometryStates ==
  \A p \in Procs :
    /\ pc[p] \in {"L72", "L76", "L81", "L125", "done"} => Names(merged[p]) = Names(usa)
    /\ Rendered(p) => Names(fig[p].regions) = Names(usa)
    /\ (pc[p] = "failed" /\ "read_file" \in effects[p] /\ err[p] # "DataSourceError")
         => (err[p] = "KeyError" /\ value_column \notin df[p].columns)

C2_Witness ==
  \E p \in Procs :
    /\ pc[p] = "done"
    /\ \E i \in 1..Len(df[p].rows) : df[p].rows[i].State \notin Names(usa)
    /\ \E n \in Names(usa) : ~HasRow(df[p].rows, n)
    /\ Names(fig[p].regions) = Names(usa)

\* C3: in sequential use, the download section is entered only from a state
\* in which the cache directory is absent, and once the directory exists and
\* no download is in progress the cache never changes again and no invocation
\* enters the download section, however little the directory holds.
C3_NoRedownload ==
  [][ /\ \A p \in Procs :
           (pc[p] \notin DownloadLines /\ pc'[p] \in DownloadLines) => ~local_dir.exists
      /\ (local_dir.exists /\ \A q \in Procs : pc[q] \notin DownloadLines)
           => (local_dir' = local_dir /\ \A q \in Procs : pc'[q] \notin DownloadLines)
    ]_vars

\* a later invocation walks a half-populated cache without downloading
C3_Witness ==
  \E p \in Procs :
    /\ pc[p] = "L42" /\ "get" \notin effects[p] /\ "makedirs" \notin effects[p]
    /\ local_dir.exists
    /\ local_dir.files # { namelist(archive)[i] : i \in 1..Len(namelist(archive)) }

\* C4: the output file changes only in the savefig step of an invocation that
\* has come through every earlier step, and a step that ends an invocation in
\* failure leaves the file as it was.
C4_OutputOnlyAtEnd ==
  [][ /\ outFile' # outFile
           => \E p \in Procs : pc[p] = "L125" /\ pc'[p] = "done" /\ err'[p] = "none"
      /\ \A p \in Procs :
           (pc'[p] = "failed" /\ pc[p] # "failed")
             => (outFile' = outFile /\ "savefig" \notin effects'[p])
    ]_vars

\* a failed invocation beside an output file an earlier one wrote
C4_Witness ==
  \E p \in Procs :
    /\ pc[p] = "failed" /\ err[p] = "KeyError"
    /\ outFile.exists /\ outFile.version = 1

\* C5 as stated: when every state of the geometry source has a matching input
\* row, no region is grey.
C5_Original ==
  \A p \in Procs :
    (Rendered(p) /\ \A n \in Names(usa) : HasRow(df[p].rows, n))
      => \A i \in 1..Len(fig[p].regions) : fig[p].regions[i].color # Grey

\* C5 amended: when every state of the geometry source has a matching input
\* row and every matching row's metric value is present, no region is grey.
C5_NoGreyWhenAllPresent ==
  \A p \in Procs :
    (/\ Rendered(p)
     /\ \A n \in Names(usa) : HasRow(df[p].rows, n)
     /\ \A i \in 1..Len(df[p].rows) :
          df[p].rows[i].State \in Names(usa) => notnull(df[p].rows[i].value))
      => \A i \in 1..Len(fig[p].regions) : fig[p].regions[i].color # Grey

C5_Witness ==
  \E p \in Procs :
    /\ Rendered(p)
    /\ \A n \in Names(usa) : HasRow(df[p].rows, n)
    /\ \A i \in 1..Len(df[p].rows) : notnull(df[p].rows[i].value)
    /\ Len(fig[p].regions) = Len(usa)

\* C6: every polygon with no matching input row is drawn grey and labelled
\* with its two-letter code only (so with no matching row at all, every
\* region is).
C6_UnmatchedGreyCodeOnly ==
  \A p \in Procs :
    Rendered(p) =>
      \A i \in 1..Len(fig[p].regions) :
        ~HasRow(df[p].rows, fig[p].regions[i].NAME)
          => /\ fig[p].regions[i].color = Grey
             /\ fig[p].labels[i].NAME = fig[p].regions[i].NAME
             /\ fig[p].labels[i].text = <<usa[CodeOf(fig[p].regions[i].NAME)].STUSPS>>

\* rows are given, none matches, and both polygons are drawn
C6_Witness ==
  \E p \in Procs :
    /\ Rendered(p)
    /\ Len(df[p].rows) > 0
    /\ \A n \in Names(usa) : ~HasRow(df[p].rows, n)
    /\ \E i \in 1..Len(df[p].rows) : notnull(df[p].rows[i].value)
    /\ Len(fig[p].regions) = Len(usa)

\* C7 as stated: when the cache holds a .shp file, the walk ends with the
\* path of the first one in traversal order.
C7_ReturnsFirstMatch ==
  \A p \in Procs :
    (pc[p] = "L47" /\ ShpInWalkOrder(local_dir.files) # <<>>)
      => shp_path[p] = Head(ShpInWalkOrder(local_dir.files))

\* The present values among the joined records (the values that are drawn)
Drawn(p) ==
  { merged[p][i].value[1] : i \in { j \in 1..Len(merged[p]) : notnull(merged[p][j].value) } }

\* C8 as stated, read for a range that is not a single point: the range is
\* [min, max] of the column's present values, the legend has the same range,
\* every drawn value lies in it, and the smallest drawn value sits at the low
\* end of the gradient, the largest at the high end.
C8_Original ==
  \A p \in Procs :
    (Rendered(p) /\ Drawn(p) # {} /\ norm[p].vmin # norm[p].vmax) =>
      /\ norm[p].vmin = <<SetMin(Present(df[p].rows))>>
      /\ norm[p].vmax = <<SetMax(Present(df[p].rows))>>
      /\ fig[p].legend[1].vmin = norm[p].vmin /\ fig[p].legend[1].vmax = norm[p].vmax
      /\ \A i \in 1..Len(merged[p]) :
           notnull(merged[p][i].value) =>
             /\ norm[p].vmin[1] <= merged[p][i].value[1]
             /\ merged[p][i].value[1] <= norm[p].vmax[1]
             /\ merged[p][i].value[1] = SetMin(Drawn(p)) => merged[p][i].color[2] = 0
             /\ merged[p][i].value[1] = SetMax(Drawn(p)) => merged[p][i].color[2] = N - 1

\* C8 amended: the range [vmin, vmax] is the smallest and the largest present
\* value of the input column (over all rows, matched or not), the legend has
\* the same range, every drawn value v lies in it, and when vmin < vmax v is
\* placed at (v - vmin)/(vmax - vmin): its colour is the gradient's entry
\* floor(N * (v - vmin)/(vmax - vmin)), the last entry for v = vmax, so a drawn
\* value is at the low (high) end exactly when it equals vmin (vmax); when
\* vmin = vmax every drawn value takes the first entry.
C8_ScaleRange ==
  \A p \in Procs :
    (Rendered(p) /\ Present(df[p].rows) # {}) =>
      LET vals == Present(df[p].rows)
          lo   == norm[p].vmin[1]
          hi   == norm[p].vmax[1]
      IN  /\ lo \in vals /\ hi \in vals
          /\ \A v \in vals : lo <= v /\ v <= hi
          /\ fig[p].legend = << [cmap |-> "custom_us_gradient",
                                 vmin |-> <<lo>>, vmax |-> <<hi>>] >>
          /\ \A i \in 1..Len(merged[p]) :
               notnull(merged[p][i].value) =>
                 LET v   == merged[p][i].value[1]
                     idx == merged[p][i].color[2]
                 IN  /\ merged[p][i].color[1] = "custom_us_gradient"
                     /\ fig[p].regions[i].color = merged[p][i].color
                     /\ idx \in 0..(N - 1)
                     /\ lo <= v /\ v <= hi
                     /\ IF lo < hi
                        THEN \/ v = hi /\ idx = N - 1
                             \/ /\ v < hi
                                /\ idx * (hi - lo) <= (v - lo) * N
                                /\ (v - lo) * N < (idx + 1) * (hi - lo)
                        ELSE idx = 0

\* the column's minimum belongs to an unmatched row; a drawn value lies
\* strictly inside the range
C8_Witness ==
  \E p \in Procs :
    /\ Rendered(p)
    /\ Drawn(p) # {}
    /\ norm[p].vmin[1] < SetMin(Drawn(p))
    /\ SetMin(Drawn(p)) < norm[p].vmax[1]

\* C9: when all present values of the column are equal, the colours are
\* assigned without failure and every region with a present value has the
\* same colour, an entry of the gradient.
C9_EqualValuesOneColor ==
  \A p \in Procs :
    (/\ pc[p] \in {"L81", "L125", "done"}
     /\ notnull(norm[p].vmin)
     /\ norm[p].vmin = norm[p].vmax) =>
      /\ err[p] = "none"
      /\ \A i, j \in 1..Len(merged[p]) :
           (notnull(merged[p][i].value) /\ notnull(merged[p][j].value))
             => /\ merged[p][i].color = merged[p][j].color
                /\ merged[p][i].color[1] = "custom_us_gradient"
                /\ merged[p][i].color[2] \in 0..(N - 1)

\* both polygons carry the one value, and the run is complete
C9_Witness ==
  \E p \in Procs :
    /\ pc[p] = "done"
    /\ notnull(norm[p].vmin) /\ norm[p].vmin = norm[p].vmax
    /\ \A i \in 1..Len(merged[p]) : notnull(merged[p][i].value)
    /\ Len(merged[p]) >= 2

\* C10: with invocations running at once and an archive that holds a .shp
\* file, the not-found error is raised only by an invocation that skipped the
\* download (it found the directory present) and searched the cache; the
\* witness is the race itself.
C10_NotFoundOnlyForSkipper ==
  \A p \in Procs :
    (err[p] = "FileNotFoundError" /\ HasShp(archive)) =>
      /\ effects[p] = {"walk"}
      /\ local_dir.exists

\* q found the directory absent, downloaded and extracted everything and drew
\* its map; p saw q's directory, skipped the download, searched too early and
\* failed
C10_Witness ==
  \E p, q \in Procs :
    /\ p # q
    /\ pc[p] = "failed" /\ err[p] = "FileNotFoundError" /\ effects[p] = {"walk"}
    /\ pc[q] = "done" /\ err[q] = "none"
    /\ {"makedirs", "get", "extractall", "savefig"} \subseteq effects[q]
    /\ local_dir.files = { namelist(archive)[i] : i \in 1..Len(namelist(archive)) }

====
